---- MODULE Spec2Model ----
(***************************************************************************)
(* soroban-sdk, src/ledger.rs: the Ledger read accessors and the          *)
(* testutils::Ledger mutators, as a state machine driven by a test        *)
(* harness that calls them one at a time.                                  *)
(*                                                                         *)
(* Unsigned integers keep their width.  A u32 is a pair of 16-bit limbs    *)
(* <<hi, lo>> and a u64 four limbs, most significant first, so that        *)
(* u32::MAX and u64::MAX are representable and an addition that leaves     *)
(* the width is visible.                                                   *)
(***************************************************************************)
EXTENDS Integers, Sequences, FiniteSets, TLC

VARIABLES
    ledger,     \* the host's stored LedgerInfo
    testMode,   \* the host serves set_ledger_info / with_mut_ledger_info
    pc,         \* "running", or "panicked" once an unwrap() has panicked
    last,       \* the harness's latest call: op, arg, ret, outcome
    prev,       \* the call before a read call that the read bears on
    copy,       \* the harness's local LedgerInfo, as returned by get()
    rep         \* the run of set_max_entry_ttl(get().max_entry_ttl) calls

vars == <<ledger, testMode, pc, last, prev, copy, rep>>

----------------------------------------------------------------------------
(* Bounds of the model *)

\* longest run of set_max_entry_ttl(get().max_entry_ttl) calls
MaxReps == 2

\* how many of the highest u32 values below u32::MAX are TTL inputs
TtlNearMax == 1

----------------------------------------------------------------------------
(* Fixed-width integers *)

\* [u8; 32], BytesN<32>
NetworkIdLen == 32

Limb == 2 ^ 16

\* the u32 of a natural number below 2^31
U32(n) == <<n \div Limb, n % Limb>>

U32_MAX == <<Limb - 1, Limb - 1>>

\* the u64 of a natural number below 2^31
U64(n) == <<0, 0, n \div Limb, n % Limb>>

U64_MAX == <<Limb - 1, Limb - 1, Limb - 1, Limb - 1>>

\* u32::wrapping_add: the sum modulo 2^32
wrapping_add(a, b) ==
    LET lo == a[2] + b[2]
        hi == a[1] + b[1] + (lo \div Limb)
    IN  <<hi % Limb, lo % Limb>>

\* u32::saturating_add: the sum, or u32::MAX when it leaves the width
saturating_add(a, b) ==
    LET lo == a[2] + b[2]
        hi == a[1] + b[1] + (lo \div Limb)
    IN  IF hi >= Limb THEN U32_MAX ELSE <<hi, lo % Limb>>

\* u32::saturating_sub
saturating_sub(a, b) ==
    LET borrow == IF a[2] < b[2] THEN 1 ELSE 0
        lo     == a[2] - b[2] + borrow * Limb
        hi     == a[1] - b[1] - borrow
    IN  IF hi < 0 THEN U32(0) ELSE <<hi, lo>>

----------------------------------------------------------------------------
(* LedgerInfo and the inputs the harness draws *)

Fields ==
    {"protocol_version", "sequence_number", "timestamp", "network_id",
     "base_reserve", "min_temp_entry_ttl", "min_persistent_entry_ttl",
     "max_entry_ttl"}

NetworkId(b) == [i \in 1..NetworkIdLen |-> b]

NetworkIds == {NetworkId(0), NetworkId(255)}

\* the record a test starts from
DefaultInfo ==
    [protocol_version         |-> U32(20),
     sequence_number          |-> U32(100),
     timestamp                |-> U64(1700000000),
     network_id               |-> NetworkId(0),
     base_reserve             |-> U32(100),
     min_temp_entry_ttl       |-> U32(16),
     min_persistent_entry_ttl |-> U32(4096),
     max_entry_ttl            |-> U32(0)]

\* a record that differs from DefaultInfo in every field
OtherInfo ==
    [protocol_version         |-> U32(21),
     sequence_number          |-> U32_MAX,
     timestamp                |-> U64_MAX,
     network_id               |-> NetworkId(255),
     base_reserve             |-> U32(0),
     min_temp_entry_ttl       |-> U32(17),
     min_persistent_entry_ttl |-> U32(4097),
     max_entry_ttl            |-> U32_MAX]

\* TTL inputs: 0, the scenario's 6_311_999, and the values up to u32::MAX
TtlVals ==
    {U32(0), U32(6311999)}
        \cup {<<Limb - 1, Limb - 1 - d>> : d \in 0..TtlNearMax}

\* the values a field-level setter is called with
FieldVals(field) ==
    IF field = "network_id" THEN NetworkIds
    ELSE IF field = "max_entry_ttl" THEN TtlVals
    ELSE {DefaultInfo[field], OtherInfo[field]}

\* the records set() is called with
SetInfos ==
    {DefaultInfo, OtherInfo}
        \cup {[DefaultInfo EXCEPT !.max_entry_ttl = t] : t \in TtlVals}
        \cup {[OtherInfo EXCEPT !.max_entry_ttl = t] : t \in TtlVals}

\* one assignment `ledger_info.field = val` of a closure passed to with_mut
Write(field, val) == [field |-> field, val |-> val]

\* the closures the harness passes to with_mut directly
Closures ==
    {<<Write("sequence_number", U32(101)), Write("timestamp", U64_MAX)>>,
     <<Write("max_entry_ttl", U32(0))>>,
     <<Write("network_id", NetworkId(255)), Write("protocol_version", U32(21))>>}

Unit == <<>>

NoCall == [op |-> "none", arg |-> Unit, ret |-> Unit, outcome |-> "returned"]

NoCopy == [live |-> FALSE, owned |-> TRUE, dirty |-> FALSE, val |-> DefaultInfo]

NoRep == [base |-> U32(0), k |-> 0]

----------------------------------------------------------------------------
(* The host runtime, as far as ledger.rs calls it *)

Ok(v) == [res |-> "Ok", val |-> v]

Err == [res |-> "Err", val |-> Unit]

U32Val(n) == [tag |-> "U32Val", body |-> n]

U64Val(n) == [tag |-> "U64Val", body |-> n]

BytesObject(bytes) == [tag |-> "BytesObject", bytes |-> bytes]

\* the closure's assignments, applied in order to the record
RECURSIVE ApplyWrites(_, _)
ApplyWrites(f, li) ==
    IF f = <<>> THEN li
    ELSE ApplyWrites(Tail(f), [li EXCEPT ![Head(f).field] = Head(f).val])

get_ledger_version == Ok(U32Val(ledger.protocol_version))

get_ledger_sequence == Ok(U32Val(ledger.sequence_number))

get_max_live_until_ledger ==
    Ok(U32Val(saturating_add(ledger.sequence_number,
                             saturating_sub(ledger.max_entry_ttl, U32(1)))))

get_ledger_timestamp == Ok(U64Val(ledger.timestamp))

get_ledger_network_id == Ok(BytesObject(ledger.network_id))

\* Result<(), HostError> and the record the host holds afterwards
set_ledger_info(li) ==
    IF testMode THEN [res |-> "Ok", ledger |-> li]
    ELSE [res |-> "Err", ledger |-> ledger]

with_mut_ledger_info(f) ==
    IF testMode THEN [res |-> "Ok", ledger |-> ApplyWrites(f, ledger)]
    ELSE [res |-> "Err", ledger |-> ledger]

\* the closure is handed a reference to the stored record
with_ledger_info == Ok([owned |-> FALSE, val |-> ledger])

----------------------------------------------------------------------------
(* ledger.rs: conversions *)

\* Result<T, Infallible> -> T
unwrap_infallible(r) == r.val

\* U32Val -> u32
into_u32(v) == v.body

\* U64Val -> Result<u64, _>
try_into_val_u64(v) == IF v.tag = "U64Val" THEN Ok(v.body) ELSE Err

\* the outcome of Result::unwrap
unwrap(res) == IF res = "Ok" THEN "returned" ELSE "panicked"

\* BytesN::<32>::unchecked_new: the handle is wrapped, not validated
unchecked_new(obj) == [n |-> NetworkIdLen, obj |-> obj]

\* the bytes a BytesN<32> denotes
to_array(b) == b.obj.bytes

\* the reference handed back as it is: the caller shares the stored record
clone_shares(li) == li

\* LedgerInfo::clone: a value of its own
clone(li) == [owned |-> TRUE, val |-> li.val]

----------------------------------------------------------------------------
(* ledger.rs: impl Ledger, the read accessors.  Each is the outcome of the *)
(* call and the value returned.                                            *)

Returned(v) == [outcome |-> "returned", ret |-> v]

protocol_version == Returned(into_u32(unwrap_infallible(get_ledger_version)))

\* sequence() that asks the host for the protocol version
sequence_reads_version ==
    Returned(into_u32(unwrap_infallible(get_ledger_version)))

sequence == Returned(into_u32(unwrap_infallible(get_ledger_sequence)))

max_live_until_ledger ==
    Returned(into_u32(unwrap_infallible(get_max_live_until_ledger)))

timestamp ==
    LET r == try_into_val_u64(unwrap_infallible(get_ledger_timestamp))
    IN  [outcome |-> unwrap(r.res), ret |-> r.val]

network_id == Returned(unchecked_new(unwrap_infallible(get_ledger_network_id)))

----------------------------------------------------------------------------
(* ledger.rs: impl testutils::Ledger for Ledger.  Each mutator is the      *)
(* outcome of the call and the record the host holds afterwards.           *)

\* set() that copies the record field by field and misses network_id
set_misses_network_id(li) ==
    LET r == set_ledger_info([li EXCEPT !.network_id = ledger.network_id])
    IN  [outcome |-> unwrap(r.res), ledger |-> r.ledger]

set(li) ==
    LET r == set_ledger_info(li)
    IN  [outcome |-> unwrap(r.res), ledger |-> r.ledger]

\* with_mut that drops the host's Result instead of unwrapping it
with_mut_ignores_err(f) ==
    LET r == with_mut_ledger_info(f)
    IN  [outcome |-> "returned", ledger |-> r.ledger]

\* with_mut that runs the closure on a clone of the record and drops it
with_mut_on_clone(f) ==
    LET r == with_ledger_info
    IN  [outcome |-> unwrap(r.res), ledger |-> ledger]

with_mut(f) ==
    LET r == with_mut_ledger_info(f)
    IN  [outcome |-> unwrap(r.res), ledger |-> r.ledger]

set_protocol_version(v) == with_mut(<<Write("protocol_version", v)>>)

set_sequence_number(v) == with_mut(<<Write("sequence_number", v)>>)

set_timestamp(v) == with_mut(<<Write("timestamp", v)>>)

\* set_network_id whose closure assigns the field to itself
set_network_id_self(v) ==
    with_mut(<<Write("network_id", ledger.network_id)>>)

set_network_id(v) == with_mut(<<Write("network_id", v)>>)

set_base_reserve(v) == with_mut(<<Write("base_reserve", v)>>)

\* set_min_temp_entry_ttl whose closure writes the neighbouring TTL field
set_min_temp_writes_persistent(v) ==
    with_mut(<<Write("min_persistent_entry_ttl", v)>>)

set_min_temp_entry_ttl(v) == with_mut(<<Write("min_temp_entry_ttl", v)>>)

set_min_persistent_entry_ttl(v) ==
    with_mut(<<Write("min_persistent_entry_ttl", v)>>)

\* set_max_entry_ttl that stores the argument as given
set_max_entry_ttl_verbatim(v) == with_mut(<<Write("max_entry_ttl", v)>>)

set_max_entry_ttl(v) ==
    with_mut(<<Write("max_entry_ttl", saturating_add(v, U32(1)))>>)

get ==
    LET r == with_ledger_info
    IN  [outcome |-> unwrap(r.res), ret |-> clone(r.val)]

----------------------------------------------------------------------------
(* The harness: one call per step *)

Init ==
    /\ ledger = DefaultInfo
    /\ testMode \in BOOLEAN
    /\ pc = "running"
    /\ last = NoCall
    /\ prev = NoCall
    /\ copy = NoCopy
    /\ rep = NoRep

Mutators ==
    {"set", "with_mut", "set_protocol_version", "set_sequence_number",
     "set_timestamp", "set_network_id", "set_base_reserve",
     "set_min_temp_entry_ttl", "set_min_persistent_entry_ttl",
     "set_max_entry_ttl"}

\* the read accessor of the field a setter writes
AccessorOf(setter) ==
    CASE setter = "set_protocol_version" -> "protocol_version"
      [] setter = "set_sequence_number" -> "sequence"
      [] setter = "set_timestamp" -> "timestamp"
      [] setter = "set_network_id" -> "network_id"
      [] OTHER -> "get"

\* what the harness remembers as prev when it makes the read call op: the
\* same read made just before, the mutator whose field op reads, or any
\* call before a get()
PrevFor(op) ==
    IF \/ last.op = op
       \/ op = "get"
       \/ last.op \in Mutators /\ AccessorOf(last.op) = op
    THEN last
    ELSE NoCall

PcAfter(outcome) == IF outcome = "panicked" THEN "panicked" ELSE "running"

\* a mutator call: r is what the mutator did
CallMutator(op, arg, r, nextRep) ==
    /\ pc = "running"
    /\ ledger' = r.ledger
    /\ pc' = PcAfter(r.outcome)
    /\ last' = [op |-> op, arg |-> arg, ret |-> Unit, outcome |-> r.outcome]
    /\ prev' = NoCall
    /\ copy' = NoCopy
    /\ rep' = nextRep
    /\ UNCHANGED testMode

\* a read accessor call that closes the ledger it reads
CallReadAdvances(op, r) ==
    /\ pc = "running"
    /\ pc' = PcAfter(r.outcome)
    /\ last' = [op |-> op, arg |-> Unit, ret |-> r.ret, outcome |-> r.outcome]
    /\ prev' = PrevFor(op)
    /\ copy' = NoCopy
    /\ rep' = NoRep
    /\ ledger' = [ledger EXCEPT
                     !.sequence_number = saturating_add(@, U32(1))]
    /\ UNCHANGED testMode

\* a read accessor call: r is what the accessor returned
CallRead(op, r) ==
    /\ pc = "running"
    /\ pc' = PcAfter(r.outcome)
    /\ last' = [op |-> op, arg |-> Unit, ret |-> r.ret, outcome |-> r.outcome]
    /\ prev' = PrevFor(op)
    /\ copy' = NoCopy
    /\ rep' = NoRep
    /\ UNCHANGED <<ledger, testMode>>

CallSet(li) == CallMutator("set", li, set(li), NoRep)

CallSetProtocolVersion(v) ==
    CallMutator("set_protocol_version", v, set_protocol_version(v), NoRep)

CallSetSequenceNumber(v) ==
    CallMutator("set_sequence_number", v, set_sequence_number(v), NoRep)

CallSetTimestamp(v) ==
    CallMutator("set_timestamp", v, set_timestamp(v), NoRep)

CallSetNetworkId(v) ==
    CallMutator("set_network_id", v, set_network_id(v), NoRep)

CallSetBaseReserve(v) ==
    CallMutator("set_base_reserve", v, set_base_reserve(v), NoRep)

CallSetMinTempEntryTtl(v) ==
    CallMutator("set_min_temp_entry_ttl", v, set_min_temp_entry_ttl(v), NoRep)

CallSetMinPersistentEntryTtl(v) ==
    CallMutator("set_min_persistent_entry_ttl", v,
                set_min_persistent_entry_ttl(v), NoRep)

CallSetMaxEntryTtl(v) ==
    CallMutator("set_max_entry_ttl", v, set_max_entry_ttl(v), NoRep)

\* set_max_entry_ttl(get().max_entry_ttl): the argument is the value the
\* harness has just read.  A run starts at a TTL input and is MaxReps long.
CallSetMaxEntryTtlOfGet ==
    /\ last.op = "get"
    /\ copy.live
    /\ ~copy.dirty
    /\ rep.k < MaxReps
    /\ rep.k = 0 => copy.val.max_entry_ttl \in TtlVals
    /\ LET m == copy.val.max_entry_ttl
       IN  CallMutator("set_max_entry_ttl", m, set_max_entry_ttl(m),
                       [base |-> IF rep.k = 0 THEN m ELSE rep.base,
                        k    |-> rep.k + 1])

CallWithMut(f) == CallMutator("with_mut", f, with_mut(f), NoRep)

\* get(): the harness keeps the returned record
CallGet ==
    /\ pc = "running"
    /\ pc' = PcAfter(get.outcome)
    /\ last' = [op |-> "get", arg |-> Unit, ret |-> get.ret.val,
                outcome |-> get.outcome]
    /\ prev' = PrevFor("get")
    /\ copy' = [live |-> TRUE, owned |-> get.ret.owned, dirty |-> FALSE,
                val |-> get.ret.val]
    /\ UNCHANGED <<ledger, testMode, rep>>

\* the harness assigns to one field of the record get() returned; the
\* assignment reaches the host's record only if the two share storage
MutateCopy(field, v) ==
    /\ pc = "running"
    /\ last.op = "get"
    /\ copy.live
    /\ copy.val[field] # v
    /\ copy' = [copy EXCEPT !.val[field] = v, !.dirty = TRUE]
    /\ ledger' = IF copy.owned THEN ledger ELSE [ledger EXCEPT ![field] = v]
    /\ last' = [op |-> "mutate_copy", arg |-> Write(field, v),
                ret |-> last.ret, outcome |-> "returned"]
    /\ prev' = last
    /\ rep' = NoRep
    /\ UNCHANGED <<testMode, pc>>

CallProtocolVersion == CallRead("protocol_version", protocol_version)

CallSequence == CallRead("sequence", sequence)

CallMaxLiveUntilLedger == CallRead("max_live_until_ledger", max_live_until_ledger)

CallTimestamp == CallRead("timestamp", timestamp)

CallNetworkId == CallRead("network_id", network_id)

Next ==
    \/ \E li \in SetInfos : CallSet(li)
    \/ \E v \in FieldVals("protocol_version") : CallSetProtocolVersion(v)
    \/ \E v \in FieldVals("sequence_number") : CallSetSequenceNumber(v)
    \/ \E v \in FieldVals("timestamp") : CallSetTimestamp(v)
    \/ \E v \in FieldVals("network_id") : CallSetNetworkId(v)
    \/ \E v \in FieldVals("base_reserve") : CallSetBaseReserve(v)
    \/ \E v \in FieldVals("min_temp_entry_ttl") : CallSetMinTempEntryTtl(v)
    \/ \E v \in FieldVals("min_persistent_entry_ttl") :
            CallSetMinPersistentEntryTtl(v)
    \/ \E v \in FieldVals("max_entry_ttl") : CallSetMaxEntryTtl(v)
    \/ CallSetMaxEntryTtlOfGet
    \/ \E f \in Closures : CallWithMut(f)
    \/ CallGet
    \/ \E field \in Fields : \E v \in FieldVals(field) : MutateCopy(field, v)
    \/ CallProtocolVersion
    \/ CallSequence
    \/ CallMaxLiveUntilLedger
    \/ CallTimestamp
    \/ CallNetworkId

Spec == Init /\ [][Next]_vars

----------------------------------------------------------------------------
(* Vocabulary of the properties *)

\* n + 1 as a u32 for n < u32::MAX, stated on the limbs
Succ32(n) == IF n[2] = Limb - 1 THEN <<n[1] + 1, 0>> ELSE <<n[1], n[2] + 1>>

\* min(m + k, u32::MAX) for a natural number k < 2^16
MinPlus(m, k) ==
    IF m[2] + k < Limb THEN <<m[1], m[2] + k>>
    ELSE IF m[1] = Limb - 1 THEN U32_MAX
    ELSE <<m[1] + 1, m[2] + k - Limb>>

FieldSetters == Mutators \ {"set", "with_mut"}

\* the field a field-level setter is named after
FieldOf(setter) ==
    CASE setter = "set_protocol_version" -> "protocol_version"
      [] setter = "set_sequence_number" -> "sequence_number"
      [] setter = "set_timestamp" -> "timestamp"
      [] setter = "set_network_id" -> "network_id"
      [] setter = "set_base_reserve" -> "base_reserve"
      [] setter = "set_min_temp_entry_ttl" -> "min_temp_entry_ttl"
      [] setter = "set_min_persistent_entry_ttl" -> "min_persistent_entry_ttl"
      [] setter = "set_max_entry_ttl" -> "max_entry_ttl"

Accessors ==
    {"protocol_version", "sequence", "max_live_until_ledger", "timestamp",
     "network_id"}

\* the latest call is get(), made right after the call named op returned
GetAfter(op) ==
    /\ last.op = "get"
    /\ last.outcome = "returned"
    /\ prev.op = op
    /\ prev.outcome = "returned"

----------------------------------------------------------------------------
(* C1: after set_max_entry_ttl(n), get() returns max_entry_ttl = n + 1 for *)
(* n < u32::MAX and u32::MAX for n = u32::MAX; the stored value never      *)
(* wraps to 0, and set_max_entry_ttl(6_311_999) leaves 6_312_000.          *)
C1_MaxEntryTtlPlusOne ==
    GetAfter("set_max_entry_ttl") =>
        /\ last.ret.max_entry_ttl =
               IF prev.arg = U32_MAX THEN U32_MAX ELSE Succ32(prev.arg)
        /\ last.ret.max_entry_ttl # U32(0)
        /\ prev.arg = U32(6311999) => last.ret.max_entry_ttl = U32(6312000)

C1_Witness ==
    /\ GetAfter("set_max_entry_ttl")
    /\ prev.arg = U32_MAX
    /\ last.ret.max_entry_ttl = U32_MAX

(* C2: set(info) immediately followed by get() returns a record equal to   *)
(* info in all eight fields; no field is carried over from the state       *)
(* before.                                                                 *)
C2_SetGetRoundTrip ==
    GetAfter("set") =>
        /\ DOMAIN last.ret = Fields
        /\ \A f \in Fields : last.ret[f] = prev.arg[f]

C2_Witness ==
    /\ GetAfter("set")
    /\ prev.arg = OtherInfo
    /\ last.ret = OtherInfo

(* C3: a field-level setter changes only the field it is named after: the  *)
(* other seven fields of the stored record are the same after the call as  *)
(* before it.                                                              *)
C3_SettersFrame ==
    [][\A op \in FieldSetters :
          last'.op = op =>
              \A g \in Fields \ {FieldOf(op)} : ledger'[g] = ledger[g]]_vars

C3_Witness ==
    /\ last.op = "set_min_temp_entry_ttl"
    /\ last.outcome = "returned"
    /\ last.arg = U32(17)
    /\ ledger = [DefaultInfo EXCEPT !.min_temp_entry_ttl = U32(17)]

(* C4: network_id() called right after set_network_id(b) returns exactly   *)
(* the 32 bytes b, whatever network id was stored or set before.           *)
C4_NetworkIdReadsLastSet ==
    (/\ last.op = "network_id"
     /\ prev.op = "set_network_id"
     /\ prev.outcome = "returned") =>
        /\ DOMAIN to_array(last.ret) = 1..NetworkIdLen
        /\ to_array(last.ret) = prev.arg

C4_Witness ==
    /\ last.op = "network_id"
    /\ prev.op = "set_network_id"
    /\ prev.arg = NetworkId(255)
    /\ to_array(last.ret) = NetworkId(255)

(* C5: when the host refuses set_ledger_info / with_mut_ledger_info, every *)
(* mutator call panics; none returns normally.                             *)
C5_MutatorsFailFast ==
    (~testMode /\ last.op \in Mutators) =>
        /\ last.outcome = "panicked"
        /\ pc = "panicked"

C5_Witness ==
    /\ ~testMode
    /\ last.op = "set_timestamp"
    /\ last.outcome = "panicked"

\* the closure a with_mut call ran: the one passed, or the setter's own
ClosureOfCall(c) ==
    IF c.op = "with_mut" THEN c.arg
    ELSE <<Write(FieldOf(c.op),
                 IF c.op # "set_max_entry_ttl" THEN c.arg
                 ELSE IF c.arg = U32_MAX THEN U32_MAX ELSE Succ32(c.arg))>>

\* every assignment of f has taken effect and no other field has changed
FullyApplied(f) ==
    /\ \A i \in DOMAIN f : ledger'[f[i].field] = f[i].val
    /\ \A g \in Fields \ {f[i].field : i \in DOMAIN f} : ledger'[g] = ledger[g]

C7_GetReturnsCopy ==
    /\ last.op = "mutate_copy" =>
           /\ ledger = last.ret
           /\ copy.val[last.arg.field] # ledger[last.arg.field]
    /\ last.op = "get" =>
           /\ last.ret = ledger
           /\ prev.op = "mutate_copy" => last.ret = prev.ret

C7_Witness ==
    /\ last.op = "get"
    /\ prev.op = "mutate_copy"
    /\ prev.arg.field = "max_entry_ttl"
    /\ last.ret = prev.ret

(* C8: a read accessor called twice in succession, with no other call in   *)
(* between, returns the same value both times.                             *)
C8_ReadTwiceSame ==
    (last.op \in Accessors /\ prev.op = last.op) =>
        /\ last.outcome = prev.outcome
        /\ last.ret = prev.ret

C8_Witness ==
    /\ last.op = "max_live_until_ledger"
    /\ prev.op = "max_live_until_ledger"
    /\ ledger.max_entry_ttl = U32_MAX

(* C9: the read accessors agree with the stored record, and the value      *)
(* written by set_protocol_version, set_sequence_number or set_timestamp   *)
(* is the value the matching accessor returns next.                        *)
C9_AccessorsAgree ==
    /\ last.op = "protocol_version" => last.ret = ledger.protocol_version
    /\ last.op = "sequence" => last.ret = ledger.sequence_number
    /\ last.op = "timestamp" =>
           last.outcome = "returned" /\ last.ret = ledger.timestamp
    /\ last.op = "network_id" => to_array(last.ret) = ledger.network_id
    /\ (/\ last.op \in {"protocol_version", "sequence", "timestamp"}
        /\ prev.op \in Mutators
        /\ prev.outcome = "returned") => last.ret = prev.arg

C9_Witness ==
    /\ last.op = "sequence"
    /\ prev.op = "set_sequence_number"
    /\ last.ret = U32_MAX
    /\ ledger.protocol_version = U32(20)

(* C10: set_max_entry_ttl(get().max_entry_ttl) does not restore the stored *)
(* value m: k such calls in a row leave min(m + k, u32::MAX); the stored   *)
(* value is >= 1 after any set_max_entry_ttl call, while set(info) stores  *)
(* info.max_entry_ttl as given, 0 included.                                *)
C10_NoRoundTrip ==
    /\ (rep.k > 0 /\ pc = "running") =>
           ledger.max_entry_ttl = MinPlus(rep.base, rep.k)
    /\ (last.op = "set_max_entry_ttl" /\ last.outcome = "returned") =>
           ledger.max_entry_ttl # U32(0)
    /\ (last.op = "set" /\ last.outcome = "returned") =>
           ledger.max_entry_ttl = last.arg.max_entry_ttl

C10_Witness ==
    /\ rep.k = 2
    /\ rep.base = <<Limb - 1, Limb - 2>>
    /\ last.op = "set_max_entry_ttl"
    /\ last.outcome = "returned"
    /\ ledger.max_entry_ttl = U32_MAX

====
